---- MODULE Spec2Model ----
(***************************************************************************)
(* A model of the data layer of gh-repo-explorer:                          *)
(*   - the API client (services/githubApi.ts): handleResponse,             *)
(*     searchUsers, getUserRepositories, getUser, getUserEvents and        *)
(*     getUserContributionStats with its contribution aggregation;         *)
(*   - the query registrations (hooks/useGitHubQueries.ts): keys, enabled  *)
(*     gates and retry callbacks, driven by the useQuery engine.           *)
(* Strings are sequences of one-character strings, so that trim and        *)
(* encodeURIComponent are computed and not assumed.                        *)
(***************************************************************************)
EXTENDS Integers, Sequences, FiniteSets, TLC

VARIABLES
    pc,               \* "idle" | "await" (a fetch is outstanding) | "done"
    op,               \* the API operation the caller invoked
    inner,            \* the operation whose fetch is outstanding
    args,             \* [query, limit, username] of the call
    page,             \* getUserRepositories: let page
    allRepositories,  \* getUserRepositories: const allRepositories
    events,           \* getUserContributionStats: const events
    requests,         \* every fetch(url) issued by the call, in order
    responses,        \* sizes of the repository pages received, in order
    received,         \* the repository pages received, concatenated in order
    result,           \* how the call settled: a value or an error
    lastResponse,     \* what the last fetch of the call settled with
    now,              \* the day on which new Date() is evaluated
    observers,        \* the mounted uses of the query hooks, by consumer
    cache,            \* the query cache: the state of every query key
    outstanding,      \* by key: producer invocations that have not settled
    calls,            \* by key: producer invocations of the fetch that is
                      \* outstanding or failed last
    seen,             \* by consumer: the result last delivered to it
    fetches,          \* fetches started so far
    clock,            \* minutes
    formUsername,     \* SearchForm: const [username, setUsername]
    formError,        \* SearchForm: const [error, setError], <<>> for null
    touched,          \* SearchForm: const [touched, setTouched]
    onSearchCalls,    \* SearchForm: the arguments onSearch was invoked with
    formEvent,        \* SearchForm: the handler that ran last
    searchQuery,      \* GitHubExplorer: const [searchQuery, setSearchQuery]
    selectedUser,     \* GitHubExplorer: const [selectedUser, ...], <<>> for null
    pageRequests      \* requests of further repository pages issued so far

apiVars == <<pc, op, inner, args, page, allRepositories, events, requests,
             responses, received, result, lastResponse, now>>

qVars == <<observers, cache, outstanding, calls, seen, fetches, clock>>

uiVars == <<formUsername, formError, touched, onSearchCalls, formEvent, searchQuery,
            selectedUser, pageRequests>>

vars == <<apiVars, qVars, uiVars>>

----------------------------------------------------------------------------
(* Bounds of the model *)

MaxQueryLen == 3
MaxPages == 3
MaxPad == 11

----------------------------------------------------------------------------
(* Strings *)

Whitespace == {" ", "\t"}
Chars == {" ", "\t", "a", "&"}

RECURSIVE SeqsUpTo(_, _)
SeqsUpTo(S, n) ==
    IF n = 0 THEN {<<>>}
    ELSE LET shorter == SeqsUpTo(S, n - 1)
         IN  shorter \cup {Append(s, c) : s \in {t \in shorter : Len(t) = n - 1}, c \in S}

RECURSIVE TrimStart(_)
TrimStart(s) ==
    IF s # <<>> /\ Head(s) \in Whitespace THEN TrimStart(Tail(s)) ELSE s

RECURSIVE TrimEnd(_)
TrimEnd(s) ==
    IF s # <<>> /\ s[Len(s)] \in Whitespace
    THEN TrimEnd(SubSeq(s, 1, Len(s) - 1))
    ELSE s

\* a bug: the query is tested as it is, if (!query)
TrimNothing(s) == s

\* String.prototype.trim
Trim(s) == TrimEnd(TrimStart(s))

\* encodeURIComponent on one character: unreserved characters pass, the
\* others become the percent escape of their code
EncodeChar(c) ==
    CASE c = " "  -> <<"%", "2", "0">>
      [] c = "\t" -> <<"%", "0", "9">>
      [] c = "&"  -> <<"%", "2", "6">>
      [] c = "%"  -> <<"%", "2", "5">>
      [] OTHER    -> <<c>>

RECURSIVE encodeURIComponent(_)
encodeURIComponent(s) ==
    IF s = <<>> THEN <<>>
    ELSE EncodeChar(Head(s)) \o encodeURIComponent(Tail(s))

Min(a, b) == IF a < b THEN a ELSE b

----------------------------------------------------------------------------
(* Dates, to the day.  A Date is the number of days since 1970-01-01.      *)

IsLeap(y) == (y % 4 = 0 /\ y % 100 # 0) \/ y % 400 = 0

DaysBeforeYear(y) ==
    365 * (y - 1970) + ((y - 1969) \div 4) - ((y - 1901) \div 100) + ((y - 1601) \div 400)

DaysInMonth(y, m) ==
    CASE m \in {4, 6, 9, 11} -> 30
      [] m = 2 -> IF IsLeap(y) THEN 29 ELSE 28
      [] OTHER -> 31

RECURSIVE DaysBeforeMonth(_, _)
DaysBeforeMonth(y, m) ==
    IF m = 1 THEN 0 ELSE DaysBeforeMonth(y, m - 1) + DaysInMonth(y, m - 1)

\* the instant of the calendar date y-m-d; a day past the end of the month
\* runs over into the next month, as Date does
DayNumber(y, m, d) == DaysBeforeYear(y) + DaysBeforeMonth(y, m) + (d - 1)

\* const oneYearAgo = new Date(); oneYearAgo.setFullYear(getFullYear() - 1)
oneYearAgo(today) == DayNumber(today.y - 1, today.m, today.d)

\* new Date(event.created_at) >= oneYearAgo; an Invalid Date compares false
InLastYear(event, today) ==
    event.created_at.valid /\ event.created_at.day >= oneYearAgo(today)

----------------------------------------------------------------------------
(* The contribution aggregation of getUserContributionStats *)

RecentActivityLimit == 10

NoCommits == <<>>

\* a bug: every push counts as one commit
CommitsOfOnePerPush(event) == IF event.type = "PushEvent" THEN 1 ELSE 0

\* what one event of the last year adds to totalCommits
CommitsOf(event) ==
    IF event.type = "PushEvent"
    THEN IF event.payload.present /\ event.payload.hasCommits
         THEN Len(event.payload.commits)
         ELSE 1
    ELSE 0

RECURSIVE SumCommits(_)
SumCommits(evs) ==
    IF evs = <<>> THEN 0 ELSE CommitsOf(Head(evs)) + SumCommits(Tail(evs))

RECURSIVE CountType(_, _)
CountType(evs, type) ==
    IF evs = <<>> THEN 0
    ELSE (IF Head(evs).type = type THEN 1 ELSE 0) + CountType(Tail(evs), type)

recentEvents(evs, today) == SelectSeq(evs, LAMBDA e : InLastYear(e, today))

\* a bug: events.slice(0, 10) in place of recentEvents.slice(0, 10)
recentActivityOfAll(evs, today) ==
    SubSeq(evs, 1, Min(RecentActivityLimit, Len(evs)))

\* recentEvents.slice(0, 10)
recentActivity(evs, today) ==
    LET recent == recentEvents(evs, today)
    IN  SubSeq(recent, 1, Min(RecentActivityLimit, Len(recent)))

Aggregate(evs, repositories, today) ==
    LET recent == recentEvents(evs, today)
    IN  [totalCommits      |-> SumCommits(recent),
         totalPullRequests |-> CountType(recent, "PullRequestEvent"),
         totalIssues       |-> CountType(recent, "IssuesEvent"),
         totalRepositories |-> Len(repositories),
         recentActivity    |-> recentActivity(evs, today)]

----------------------------------------------------------------------------
(* Errors and HTTP responses *)

\* an optional number: status?: number
None == <<>>
Some(n) == <<n>>

\* new GitHubApiError(message, status)
GitHubApiError(message, status) ==
    [name |-> "GitHubApiError", message |-> message, status |-> status]

\* any other thrown value: a TypeError of fetch, a SyntaxError of json(), ...
OtherError(name) == [name |-> name, message |-> <<name>>, status |-> None]

Ok(value) == [kind |-> "ok", value |-> value]
Err(error) == [kind |-> "err", error |-> error]
Pending == [kind |-> "none"]

StatusText(status) ==
    CASE status = 403 -> "Forbidden"
      [] status = 404 -> "Not Found"
      [] OTHER        -> "Internal Server Error"

\* a bug: the default message leaves out the status text
DefaultMessageStatusOnly(response) == <<"HTTP ", ToString(response.status)>>

\* `HTTP ${response.status}: ${response.statusText}`
DefaultMessage(response) ==
    <<"HTTP ", ToString(response.status), ": ", response.statusText>>

\* the bodies of a response that is not ok: an object with a message, an
\* object without one, the JSON value null, text that is no JSON, and no
\* body at all
ServiceMessages == {<<"API rate limit exceeded">>, <<"Not Found">>}

ErrorBodies ==
    {[kind |-> "object", message |-> m] : m \in ServiceMessages}
        \cup {[kind |-> k, message |-> <<>>] : k \in {"noMessage", "null", "invalid", "empty"}}

ErrorResponses ==
    {[ok |-> FALSE, status |-> st, statusText |-> StatusText(st), body |-> b] :
        st \in {403, 404, 500}, b \in ErrorBodies}

OkResponse(value) ==
    [ok |-> TRUE, status |-> 200, statusText |-> "OK",
     body |-> [kind |-> "json", value |-> value]]

\* a success response whose body is no JSON
GarbledResponse ==
    [ok |-> TRUE, status |-> 200, statusText |-> "OK", body |-> [kind |-> "invalid"]]

\* a bug: the typed error of a response that is not ok loses its status
handleResponseDropsStatus(response) ==
    IF ~response.ok
    THEN Err(GitHubApiError(IF response.body.kind = "object" THEN response.body.message
                            ELSE DefaultMessage(response), None))
    ELSE IF response.body.kind = "invalid"
         THEN Err(OtherError("SyntaxError"))
         ELSE Ok(response.body.value)

\* async function handleResponse<T>(response)
handleResponse(response) ==
    IF ~response.ok
    THEN CASE response.body.kind \in {"invalid", "empty"} ->
                \* response.json() rejects: .catch(() => ({message: ...}))
                Err(GitHubApiError(DefaultMessage(response), Some(response.status)))
           [] response.body.kind = "null" ->
                \* errorData is null: reading errorData.message throws
                Err(OtherError("TypeError"))
           [] response.body.kind = "noMessage" ->
                \* errorData.message is undefined: an Error with no message
                Err(GitHubApiError(<<>>, Some(response.status)))
           [] OTHER ->
                Err(GitHubApiError(response.body.message, Some(response.status)))
    ELSE IF response.body.kind = "invalid"
         THEN Err(OtherError("SyntaxError"))
         ELSE Ok(response.body.value)

\* a bug: every operation reports the message of the last one
ConnectivityMessageOfStats(operation) ==
    <<"Failed to fetch contribution statistics. Please check your connection.">>

ConnectivityMessage(operation) ==
    CASE operation = "searchUsers" ->
            <<"Failed to search users. Please check your connection.">>
      [] operation = "getUserRepositories" ->
            <<"Failed to fetch repositories. Please check your connection.">>
      [] operation = "getUser" ->
            <<"Failed to fetch user details. Please check your connection.">>
      [] operation = "getUserEvents" ->
            <<"Failed to fetch user events. Please check your connection.">>
      [] OTHER ->
            <<"Failed to fetch contribution statistics. Please check your connection.">>

\* a bug: the catch block has no instanceof test and wraps every error
CatchRewraps(operation, error) ==
    GitHubApiError(ConnectivityMessage(operation), None)

\* catch (error) { if (error instanceof GitHubApiError) throw error; throw new ... }
Catch(operation, error) ==
    IF error.name = "GitHubApiError"
    THEN error
    ELSE GitHubApiError(ConnectivityMessage(operation), None)

\* a bug: no operation awaits handleResponse inside its try
AwaitsNever(operation) == FALSE

\* searchUsers and getUserRepositories await handleResponse inside the try;
\* getUser and getUserEvents return its promise, which settles outside it
AwaitsHandleResponse(operation) ==
    operation \in {"searchUsers", "getUserRepositories"}

\* the error an operation throws when handleResponse rejects with error
Thrown(operation, error) ==
    IF AwaitsHandleResponse(operation) THEN Catch(operation, error) ELSE error

----------------------------------------------------------------------------
(* Requests *)

DefaultLimit == 5
perPage == 100

\* a bug: per_page is always the default
LimitIgnored(limit) == DefaultLimit

\* limit: number = 5; the argument is None when the caller gives none
LimitOf(limit) == IF limit = None THEN DefaultLimit ELSE limit[1]

SearchUrl(query, limit) ==
    [path |-> "/search/users", q |-> encodeURIComponent(query),
     user |-> <<>>, per_page |-> LimitOf(limit), page |-> 0]

\* a bug: the url always asks for the first page
ReposUrlFirstPage(username, p) ==
    [path |-> "/users/{username}/repos", q |-> <<>>,
     user |-> encodeURIComponent(username), per_page |-> perPage, page |-> 1]

ReposUrl(username, p) ==
    [path |-> "/users/{username}/repos", q |-> <<>>,
     user |-> encodeURIComponent(username), per_page |-> perPage, page |-> p]

UserUrl(username) ==
    [path |-> "/users/{username}", q |-> <<>>,
     user |-> encodeURIComponent(username), per_page |-> 0, page |-> 0]

\* a bug: the url has no per_page, and the service sends its default of 30
EventsUrlDefaultPage(username) ==
    [path |-> "/users/{username}/events/public", q |-> <<>>,
     user |-> encodeURIComponent(username), per_page |-> 30, page |-> 0]

EventsUrl(username) ==
    [path |-> "/users/{username}/events/public", q |-> <<>>,
     user |-> encodeURIComponent(username), per_page |-> 100, page |-> 0]

----------------------------------------------------------------------------
(* The inputs of the model *)

Queries == SeqsUpTo(Chars, MaxQueryLen)

Limits == {None, Some(1), Some(10)}

Usernames == {<<>>, <<"a">>, <<"a", "&">>}

Today == {[y |-> 2024, m |-> 3, d |-> 1], [y |-> 2024, m |-> 2, d |-> 29],
          [y |-> 2025, m |-> 6, d |-> 15]}

DayOf(today) == DayNumber(today.y, today.m, today.d)

Accounts == {[id |-> 1, login |-> <<"a">>], [id |-> 2, login |-> <<"a", "&">>]}

ItemLists == SeqsUpTo(Accounts, 2)

\* the n items of page p of a repository listing
RepositoryPage(p, n) == [i \in 1..n |-> [id |-> (p - 1) * perPage + i]]

\* the server honours per_page: a page holds at most perPage items
PageSizes == {0, 1, 37, 42, perPage - 1, perPage}

ValidDate(day) == [valid |-> TRUE, day |-> day]
InvalidDate == [valid |-> FALSE, day |-> 0]

CommitList(n) == [present |-> TRUE, hasCommits |-> TRUE, commits |-> [i \in 1..n |-> "sha"]]
EmptyPayload == [present |-> TRUE, hasCommits |-> FALSE, commits |-> NoCommits]
NullPayload == [present |-> FALSE, hasCommits |-> FALSE, commits |-> NoCommits]

\* an event of the feed, by its age in days (created_at is filled in from
\* the day of the call); age -1 stands for a created_at that is no date
EventKinds ==
    {[type |-> "PushEvent", payload |-> CommitList(2), age |-> 30],
     [type |-> "PushEvent", payload |-> CommitList(0), age |-> 30],
     [type |-> "PushEvent", payload |-> EmptyPayload, age |-> 365],
     [type |-> "PushEvent", payload |-> NullPayload, age |-> 366],
     [type |-> "PushEvent", payload |-> CommitList(1), age |-> 400],
     [type |-> "PullRequestEvent", payload |-> EmptyPayload, age |-> 60],
     [type |-> "PullRequestEvent", payload |-> EmptyPayload, age |-> 400],
     [type |-> "IssuesEvent", payload |-> EmptyPayload, age |-> 90],
     [type |-> "WatchEvent", payload |-> EmptyPayload, age |-> 30],
     [type |-> "PushEvent", payload |-> CommitList(2), age |-> -1]}

\* the feed of the given kinds as the service sends it on the given day
Feed(kinds, today) ==
    [i \in 1..Len(kinds) |->
        [id |-> i, type |-> kinds[i].type, payload |-> kinds[i].payload,
         created_at |-> IF kinds[i].age < 0 THEN InvalidDate
                        ELSE ValidDate(DayOf(today) - kinds[i].age)]]

Repeat(x, n) == [i \in 1..n |-> x]

\* the events that fill the long feeds
FillKinds ==
    {[type |-> "WatchEvent", payload |-> EmptyPayload, age |-> 30],
     [type |-> "PushEvent", payload |-> CommitList(2), age |-> 30],
     [type |-> "PushEvent", payload |-> CommitList(1), age |-> 400],
     [type |-> "PullRequestEvent", payload |-> EmptyPayload, age |-> 60]}

\* feeds with no copy, or with about MaxPad copies, of one event between two
\* short ends
PaddedKinds ==
    {pre \o Repeat(fill, k) \o suf :
        pre \in SeqsUpTo(EventKinds, 1), fill \in FillKinds,
        k \in {0} \cup ((MaxPad - 2)..MaxPad), suf \in SeqsUpTo(EventKinds, 1)}

\* the example feed of the tests, and two short ones
SmallKinds ==
    {<<>>,
     <<[type |-> "PushEvent", payload |-> CommitList(2), age |-> 30],
       [type |-> "PullRequestEvent", payload |-> EmptyPayload, age |-> 60],
       [type |-> "IssuesEvent", payload |-> EmptyPayload, age |-> 90],
       [type |-> "PushEvent", payload |-> CommitList(1), age |-> 400]>>,
     <<[type |-> "PushEvent", payload |-> NullPayload, age |-> 366]>>}

\* a feed that fills the one page getUserEvents asks for
FullPageKinds ==
    Repeat([type |-> "WatchEvent", payload |-> EmptyPayload, age |-> 30], 100)

----------------------------------------------------------------------------
(* The query registrations of hooks/useGitHubQueries.ts *)

MaxClock == 10
MaxFetches == 2

Hooks == {"useSearchUsers", "useUserRepositories", "useUser"}

\* the observers: GitHubExplorer calls three hooks
Consumers == {"c1", "c2", "c3"}

\* two components that render and drop hooks as they like
Callers == {"c1", "c2"}

\* how GitHubExplorer uses a hook, as <<argument, enabled>>:
\* useSearchUsers(searchQuery), and useUser and useUserRepositories with
\* (selectedUser?.login || "", !!selectedUser)
HookUses(hook) ==
    IF hook = "useSearchUsers"
    THEN {<<<<" ">>, TRUE>>, <<<<"a">>, TRUE>>}
    ELSE {<<<<>>, FALSE>>, <<<<"a">>, TRUE>>}

\* queryKey
queryKey(hook, arg) ==
    CASE hook = "useSearchUsers"      -> <<"users", "search", arg>>
      [] hook = "useUserRepositories" -> <<"repositories", arg>>
      [] OTHER                        -> <<"user", arg>>

\* the arguments GitHubExplorer itself gives a hook: the searchQuery, ""
\* at first, and the login of a user of the list
HookArgs(hook) ==
    IF hook = "useSearchUsers" THEN {<<>>, <<"a">>, <<"a", "&">>}
    ELSE {<<>>} \cup {a.login : a \in Accounts}

Keys ==
    UNION {{queryKey(hook, use[1]) : use \in HookUses(hook)}
               \cup {queryKey(hook, arg) : arg \in HookArgs(hook)} : hook \in Hooks}

HookOf(key) ==
    CASE key[1] = "users"        -> "useSearchUsers"
      [] key[1] = "repositories" -> "useUserRepositories"
      [] OTHER                   -> "useUser"

\* queryFn: the API operation the hook calls
queryFn(hook) ==
    CASE hook = "useSearchUsers"      -> "searchUsers"
      [] hook = "useUserRepositories" -> "getUserRepositories"
      [] OTHER                        -> "getUser"

\* a bug: the gate of the search does not look at the query
enabledIgnoresArgument(hook, arg, flag) == flag

\* a bug: the queries are enabled whatever the caller says
enabledAlways(hook, arg, flag) == TRUE

\* enabled
enabled(hook, arg, flag) ==
    IF hook = "useSearchUsers"
    THEN flag /\ Len(Trim(arg)) > 0
    ELSE flag /\ Len(arg) > 0

\* a bug: no staleTime is set, and data is stale at once
staleTimeUnset(hook) == 0

\* a bug: useUser has the staleTime of the other hooks
staleTimeOfSearch(hook) == 5

\* staleTime, in minutes
staleTime(hook) == IF hook = "useUser" THEN 10 ELSE 5

\* a bug: a rate limit error is retried like any other
retryAlways(hook, failureCount, error) == failureCount < 3

\* a bug: one more retry
retryOneMore(hook, failureCount, error) ==
    IF /\ error.name = "GitHubApiError"
       /\ \/ error.status = Some(403)
          \/ hook = "useUser" /\ error.status = Some(404)
    THEN FALSE
    ELSE failureCount < 4

\* retry: (failureCount, error) => ...
retry(hook, failureCount, error) ==
    IF /\ error.name = "GitHubApiError"
       /\ \/ error.status = Some(403)
          \/ hook = "useUser" /\ error.status = Some(404)
    THEN FALSE
    ELSE failureCount < 3

Unmounted == [mounted |-> FALSE, hook |-> "none", arg |-> <<>>, flag |-> FALSE]

NoEntry ==
    [status |-> "pending", hasData |-> FALSE, data |-> <<>>, hasError |-> FALSE,
     error |-> OtherError("none"), fetching |-> FALSE, failureCount |-> 0,
     failureReason |-> OtherError("none"), dataUpdatedAt |-> 0,
     seeded |-> FALSE, retryCancelled |-> FALSE]

NothingSeen == [hasData |-> FALSE, data |-> <<>>, hasError |-> FALSE,
                error |-> OtherError("none"), isLoading |-> FALSE]

\* the cache after new QueryClient(), with no hook mounted
QueryOff ==
    /\ observers = [c \in Consumers |-> Unmounted]
    /\ cache = [k \in Keys |-> NoEntry]
    /\ outstanding = [k \in Keys |-> 0]
    /\ calls = [k \in Keys |-> 0]
    /\ seen = [c \in Consumers |-> NothingSeen]
    /\ fetches = 0
    /\ clock = 0

\* SearchForm and GitHubExplorer as first rendered
UiOff ==
    /\ formUsername = <<>>
    /\ formError = <<>>
    /\ touched = FALSE
    /\ onSearchCalls = <<>>
    /\ formEvent = "none"
    /\ searchQuery = <<>>
    /\ selectedUser = <<>>
    /\ pageRequests = 0

----------------------------------------------------------------------------
(* The API client: one call at a time, a fetch at each await *)

\* no fetch has settled yet; the fetch rejected
NoResponse == [ok |-> FALSE, status |-> 0, statusText |-> "", body |-> [kind |-> "none"]]
Rejected == [ok |-> FALSE, status |-> 0, statusText |-> "", body |-> [kind |-> "rejected"]]

NoArgs == [query |-> <<>>, limit |-> None, username |-> <<>>]

Idle(today) ==
    /\ pc = "idle"
    /\ op = "none"
    /\ inner = "none"
    /\ args = NoArgs
    /\ page = 1
    /\ allRepositories = <<>>
    /\ events = <<>>
    /\ requests = <<>>
    /\ responses = <<>>
    /\ received = <<>>
    /\ result = Pending
    /\ lastResponse = NoResponse
    /\ now = today

\* a call that settles before any fetch
Immediately(operation, a, outcome) ==
    /\ pc' = "done"
    /\ op' = operation
    /\ inner' = "none"
    /\ args' = a
    /\ result' = outcome
    /\ UNCHANGED <<page, allRepositories, events, requests, responses, received, lastResponse, now, qVars, uiVars>>

\* a call that issues its first fetch
Fetching(operation, first, a, url) ==
    /\ pc' = "await"
    /\ op' = operation
    /\ inner' = first
    /\ args' = a
    /\ requests' = <<url>>
    /\ UNCHANGED <<page, allRepositories, events, responses, received, result, lastResponse, now, qVars, uiVars>>

\* githubApi.searchUsers(query, limit), up to await fetch(url)
searchUsers(query, limit) ==
    /\ pc = "idle"
    /\ LET a == [query |-> query, limit |-> limit, username |-> <<>>]
       IN  IF Trim(query) = <<>>
           THEN Immediately("searchUsers", a, Ok(<<>>))
           ELSE Fetching("searchUsers", "searchUsers", a, SearchUrl(query, limit))

\* githubApi.getUserRepositories(username), up to the first await fetch(url)
getUserRepositories(username) ==
    /\ pc = "idle"
    /\ LET a == [query |-> <<>>, limit |-> None, username |-> username]
       IN  IF username = <<>>
           THEN Immediately("getUserRepositories", a, Ok(<<>>))
           ELSE Fetching("getUserRepositories", "getUserRepositories", a,
                         ReposUrl(username, page))

\* a bug: getUser without its guard
getUserUnguarded(username) ==
    /\ pc = "idle"
    /\ Fetching("getUser", "getUser",
                [query |-> <<>>, limit |-> None, username |-> username],
                UserUrl(username))

\* githubApi.getUser(username), up to await fetch(url)
getUser(username) ==
    /\ pc = "idle"
    /\ LET a == [query |-> <<>>, limit |-> None, username |-> username]
       IN  IF username = <<>>
           THEN Immediately("getUser", a,
                            Err(GitHubApiError(<<"Username is required">>, None)))
           ELSE Fetching("getUser", "getUser", a, UserUrl(username))

\* githubApi.getUserEvents(username), up to await fetch(url)
getUserEvents(username) ==
    /\ pc = "idle"
    /\ LET a == [query |-> <<>>, limit |-> None, username |-> username]
       IN  IF username = <<>>
           THEN Immediately("getUserEvents", a, Ok(<<>>))
           ELSE Fetching("getUserEvents", "getUserEvents", a, EventsUrl(username))

\* a bug: the repositories are fetched first
getUserContributionStatsReposFirst(username) ==
    /\ pc = "idle"
    /\ LET a == [query |-> <<>>, limit |-> None, username |-> username]
       IN  IF username = <<>>
           THEN Immediately("getUserContributionStats", a,
                            Err(GitHubApiError(<<"Username is required">>, None)))
           ELSE Fetching("getUserContributionStats", "getUserRepositories", a,
                         ReposUrl(username, page))

\* githubApi.getUserContributionStats(username), up to the fetch of
\* this.getUserEvents(username)
getUserContributionStats(username) ==
    /\ pc = "idle"
    /\ LET a == [query |-> <<>>, limit |-> None, username |-> username]
       IN  IF username = <<>>
           THEN Immediately("getUserContributionStats", a,
                            Err(GitHubApiError(<<"Username is required">>, None)))
           ELSE Fetching("getUserContributionStats", "getUserEvents", a,
                         EventsUrl(username))

\* the operation awaiting the fetch has settled with outcome: the caller's
\* promise settles, or getUserContributionStats goes on
Settle(outcome) ==
    IF op # "getUserContributionStats"
    THEN /\ pc' = "done"
         /\ result' = outcome
         /\ UNCHANGED <<inner, events, requests>>
    ELSE IF outcome.kind = "err"
    THEN /\ pc' = "done"
         /\ result' = Err(Catch("getUserContributionStats", outcome.error))
         /\ UNCHANGED <<inner, events, requests>>
    ELSE IF inner = "getUserEvents"
    THEN \* const repositories = await this.getUserRepositories(username)
         /\ pc' = "await"
         /\ events' = outcome.value
         /\ inner' = "getUserRepositories"
         /\ requests' = Append(requests, ReposUrl(args.username, page))
         /\ UNCHANGED result
    ELSE /\ pc' = "done"
         /\ result' = Ok(Aggregate(events, outcome.value, now))
         /\ UNCHANGED <<inner, events, requests>>

\* what fetch rejects with: a TypeError ("Failed to fetch"), an AbortError
Rejections == {OtherError("TypeError"), OtherError("AbortError")}

\* await fetch(url) rejects: the transport failed
FetchRejects ==
    /\ pc = "await"
    /\ \E error \in Rejections : Settle(Err(Catch(inner, error)))
    /\ lastResponse' = Rejected
    /\ UNCHANGED <<op, args, page, allRepositories, responses, received, now, qVars, uiVars>>

\* a bug: a search with no result is reported as a failure
SingleEmptyFails(operation, r) ==
    LET data == handleResponse(r)
    IN  IF data.kind = "err" THEN Err(Thrown(operation, data.error))
        ELSE IF operation = "searchUsers"
        THEN (IF data.value.items = <<>>
              THEN Err(GitHubApiError(<<"No users found">>, Some(404)))
              ELSE Ok(data.value.items))
        ELSE data

\* the outcome of an operation with a single fetch, given its response
Single(operation, r) ==
    LET data == handleResponse(r)
    IN  IF data.kind = "err" THEN Err(Thrown(operation, data.error))
        ELSE IF operation = "searchUsers" THEN Ok(data.value.items)
        ELSE data

SuccessBodies(operation, today) ==
    CASE operation = "searchUsers" ->
            {[total_count |-> Len(items), incomplete_results |-> FALSE, items |-> items] :
                items \in ItemLists}
      [] operation = "getUser" -> Accounts
      [] OTHER -> {Feed(kinds, today) : kinds \in SmallKinds \cup {FullPageKinds}}

\* the fetch of searchUsers, getUser or getUserEvents resolves
FetchResolves ==
    /\ pc = "await"
    /\ inner \in {"searchUsers", "getUser", "getUserEvents"}
    /\ \E r \in ErrorResponses \cup {GarbledResponse}
                  \cup {OkResponse(v) : v \in SuccessBodies(inner, now)} :
          /\ Settle(Single(inner, r))
          /\ lastResponse' = r
    /\ UNCHANGED <<op, args, page, allRepositories, responses, received, now, qVars, uiVars>>

\* if (repositories.length === 0) break; allRepositories.push(...repositories)
Accumulate(all, repositories) ==
    IF Len(repositories) = 0 THEN all ELSE all \o repositories

\* a bug: the loop stops at an empty page only
IsLastPageOnlyEmpty(repositories) == Len(repositories) = 0

\* a bug: the loop stops after a full page too
IsLastPageAtFull(repositories) ==
    Len(repositories) = 0 \/ Len(repositories) <= perPage

\* the two breaks of the loop: an empty page, or less than the full page
IsLastPage(repositories) ==
    Len(repositories) = 0 \/ Len(repositories) < perPage

\* the fetch of a page of getUserRepositories resolves to a page of
\* repositories: the body of the while loop after the await
PageResolves ==
    /\ pc = "await"
    /\ inner = "getUserRepositories"
    /\ \E n \in PageSizes :
          /\ n < perPage \/ page < MaxPages
          /\ LET repositories == handleResponse(OkResponse(RepositoryPage(page, n))).value
                 all == Accumulate(allRepositories, repositories)
             IN  /\ lastResponse' = OkResponse(RepositoryPage(page, n))
                 /\ responses' = Append(responses, n)
                 /\ received' = received \o RepositoryPage(page, n)
                 /\ allRepositories' = all
                 /\ IF IsLastPage(repositories)
                    THEN /\ Settle(Ok(all))
                         /\ page' = page
                    ELSE /\ page' = page + 1
                         /\ requests' = Append(requests, ReposUrl(args.username, page + 1))
                         /\ UNCHANGED <<pc, inner, events, result>>
    /\ UNCHANGED <<op, args, now, qVars, uiVars>>

\* the fetch of a page of getUserRepositories resolves to a failure
PageFails ==
    /\ pc = "await"
    /\ inner = "getUserRepositories"
    /\ \E r \in ErrorResponses \cup {GarbledResponse} :
          /\ Settle(Err(Thrown("getUserRepositories", handleResponse(r).error)))
          /\ lastResponse' = r
    /\ UNCHANGED <<op, args, page, allRepositories, responses, received, now, qVars, uiVars>>

\* the caller takes the result; the next call starts afresh
Return ==
    /\ pc = "done"
    /\ pc' = "idle"
    /\ op' = "none"
    /\ inner' = "none"
    /\ args' = NoArgs
    /\ page' = 1
    /\ allRepositories' = <<>>
    /\ events' = <<>>
    /\ requests' = <<>>
    /\ responses' = <<>>
    /\ received' = <<>>
    /\ result' = Pending
    /\ lastResponse' = NoResponse
    /\ UNCHANGED <<now, qVars, uiVars>>

Init == \E today \in Today : Idle(today) /\ QueryOff /\ UiOff

Next ==
    \/ \E query \in Queries, limit \in Limits : searchUsers(query, limit)
    \/ \E username \in Usernames : getUserRepositories(username)
    \/ \E username \in Usernames : getUser(username)
    \/ \E username \in Usernames : getUserEvents(username)
    \/ \E username \in Usernames : getUserContributionStats(username)
    \/ FetchRejects
    \/ FetchResolves
    \/ PageResolves
    \/ PageFails
    \/ Return

Spec == Init /\ [][Next]_vars

----------------------------------------------------------------------------
(* The aggregation on its own: the part of getUserContributionStats after  *)
(* the two awaits, applied to a feed and a repository list                 *)

AggInit ==
    \E today \in Today, kinds \in PaddedKinds \cup SmallKinds, n \in {0, 2} :
        /\ pc = "idle"
        /\ op = "getUserContributionStats"
        /\ inner = "none"
        /\ args = [query |-> <<>>, limit |-> None, username |-> <<"a">>]
        /\ page = 1
        /\ allRepositories = RepositoryPage(1, n)
        /\ events = Feed(kinds, today)
        /\ requests = <<>>
        /\ responses = <<>>
        /\ received = <<>>
        /\ result = Pending
        /\ lastResponse = NoResponse
        /\ now = today
        /\ QueryOff
        /\ UiOff

\* lines 170-209 of getUserContributionStats
AggregateStep ==
    /\ pc = "idle"
    /\ pc' = "done"
    /\ result' = Ok(Aggregate(events, allRepositories, now))
    /\ UNCHANGED <<op, inner, args, page, allRepositories, events, requests,
                   responses, received, lastResponse, now, qVars, uiVars>>

AggNext == AggregateStep

AggSpec == AggInit /\ [][AggNext]_vars

----------------------------------------------------------------------------
(* The useQuery engine behind the hooks: one cache entry per key, a fetch   *)
(* shared by the consumers of the key, retried as the retry callback says   *)

KeyOf(c) == queryKey(observers[c].hook, observers[c].arg)

\* what a consumer reads from a cache entry
ResultOf(entry) ==
    [hasData |-> entry.hasData, data |-> entry.data,
     hasError |-> entry.hasError, error |-> entry.error,
     isLoading |-> entry.fetching /\ entry.status = "pending"]

\* no data yet, or data older than the staleTime of the hook
isStale(key) ==
    \/ ~cache[key].hasData
    \/ clock - cache[key].dataUpdatedAt >= staleTime(HookOf(key))

\* a bug: every consumer starts a fetch of its own
fetchIsIdleAlways(key) == TRUE

\* no fetch of the key is outstanding: a new one may start
fetchIsIdle(key) == ~cache[key].fetching

\* what the producer of a key may settle with: the outcomes of the API
\* operation the hook calls
QueryResponses(operation) ==
    {[ok |-> FALSE, status |-> 403, statusText |-> StatusText(403),
      body |-> [kind |-> "object", message |-> <<"API rate limit exceeded">>]],
     [ok |-> FALSE, status |-> 404, statusText |-> StatusText(404),
      body |-> [kind |-> "object", message |-> <<"Not Found">>]],
     [ok |-> FALSE, status |-> 500, statusText |-> StatusText(500),
      body |-> [kind |-> "invalid", message |-> <<>>]],
     GarbledResponse}
    \cup (CASE operation = "searchUsers" ->
                {OkResponse([total_count |-> Len(items), incomplete_results |-> FALSE,
                             items |-> items]) : items \in SeqsUpTo(Accounts, 1)}
            [] operation = "getUser" -> {OkResponse(a) : a \in Accounts}
            [] OTHER -> {OkResponse(RepositoryPage(1, n)) : n \in {0, 1}})

Outcomes(key) ==
    LET operation == queryFn(HookOf(key))
    IN  {Err(Catch(operation, OtherError("TypeError")))}
            \cup {IF operation = "getUserRepositories"
                  THEN (IF handleResponse(r).kind = "err"
                        THEN Err(Thrown(operation, handleResponse(r).error))
                        ELSE Ok(Accumulate(<<>>, handleResponse(r).value)))
                  ELSE Single(operation, r) : r \in QueryResponses(operation)}

\* the engine, as one value
Engine ==
    [observers |-> observers, cache |-> cache, outstanding |-> outstanding,
     calls |-> calls, seen |-> seen, fetches |-> fetches]

Install(E) ==
    /\ observers' = E.observers
    /\ cache' = E.cache
    /\ outstanding' = E.outstanding
    /\ calls' = E.calls
    /\ seen' = E.seen
    /\ fetches' = E.fetches

\* the consumers of the key are given the new state of its entry
SeenOf(obs, sn, key, entry) ==
    [c \in Consumers |->
        IF obs[c].mounted /\ queryKey(obs[c].hook, obs[c].arg) = key
        THEN ResultOf(entry)
        ELSE sn[c]]

NotifyOf(obs, key, entry) == seen' = SeenOf(obs, seen, key, entry)

Notify(key, entry) == NotifyOf(observers, key, entry)

\* the observer of a consumer subscribes to the query of a hook, which
\* fetches when it is enabled and stale, unless a fetch of the key is
\* outstanding.  (The entry of the key is still as in the cache: no step
\* subscribes an observer to a key it has changed before.)
Subscribed(E, c, hook, arg, flag) ==
    LET key == queryKey(hook, arg)
        wanted == enabled(hook, arg, flag) /\ isStale(key)
        start == wanted /\ fetchIsIdle(key)
        entry == IF ~wanted THEN E.cache[key]
                 ELSE IF ~start
                 THEN \* the fetch that is outstanding is joined, and retried again
                      [E.cache[key] EXCEPT !.retryCancelled = FALSE]
                 ELSE IF E.cache[key].hasData
                 THEN [E.cache[key] EXCEPT !.fetching = TRUE, !.failureCount = 0,
                                           !.failureReason = OtherError("none"),
                                           !.retryCancelled = FALSE]
                 ELSE [E.cache[key] EXCEPT !.fetching = TRUE, !.failureCount = 0,
                                           !.failureReason = OtherError("none"),
                                           !.retryCancelled = FALSE,
                                           !.status = "pending", !.hasError = FALSE,
                                           !.error = OtherError("none")]
        obs == [E.observers EXCEPT ![c] =
                   [mounted |-> TRUE, hook |-> hook, arg |-> arg, flag |-> flag]]
    IN  [observers |-> obs,
         cache |-> [E.cache EXCEPT ![key] = entry],
         outstanding |-> IF start THEN [E.outstanding EXCEPT ![key] = @ + 1]
                         ELSE E.outstanding,
         calls |-> IF start THEN [E.calls EXCEPT ![key] = 1] ELSE E.calls,
         seen |-> SeenOf(obs, E.seen, key, entry),
         fetches |-> IF start THEN E.fetches + 1 ELSE E.fetches]

\* a consumer renders a hook
Mount(c, hook, arg, flag) ==
    /\ ~observers[c].mounted
    /\ LET E == Subscribed(Engine, c, hook, arg, flag)
       IN  /\ E.fetches <= MaxFetches
           /\ Install(E)
    /\ UNCHANGED <<clock, apiVars, uiVars>>

\* a bug: the fetch of a key is dropped when its last consumer leaves
UnmountCancels(c) ==
    /\ observers[c].mounted
    /\ observers' = [observers EXCEPT ![c] = Unmounted]
    /\ seen' = [seen EXCEPT ![c] = NothingSeen]
    /\ cache' = [cache EXCEPT ![KeyOf(c)].fetching = FALSE]
    /\ outstanding' = [outstanding EXCEPT ![KeyOf(c)] = 0]
    /\ UNCHANGED <<calls, fetches, clock, apiVars, uiVars>>

\* the observer of a consumer unsubscribes; a fetch of its key goes on, but
\* when no consumer of the key is left a failure of the fetch is not retried
Unsubscribed(E, c) ==
    LET key == queryKey(E.observers[c].hook, E.observers[c].arg)
        last == \A d \in Consumers \ {c} :
                    ~(/\ E.observers[d].mounted
                      /\ queryKey(E.observers[d].hook, E.observers[d].arg) = key)
    IN  [E EXCEPT !.observers[c] = Unmounted,
                  !.seen[c] = NothingSeen,
                  !.cache = IF last /\ E.cache[key].fetching
                            THEN [E.cache EXCEPT ![key].retryCancelled = TRUE]
                            ELSE E.cache]

\* the consumer unmounts
Unmount(c) ==
    /\ observers[c].mounted
    /\ Install(Unsubscribed(Engine, c))
    /\ UNCHANGED <<clock, apiVars, uiVars>>

\* the producer of the key resolves
ProducerSucceeds(key, value) ==
    /\ outstanding[key] > 0
    /\ LET entry == [status |-> "success", hasData |-> TRUE, data |-> value,
                     hasError |-> FALSE, error |-> OtherError("none"),
                     fetching |-> FALSE, failureCount |-> 0,
                     failureReason |-> OtherError("none"), dataUpdatedAt |-> clock,
                     seeded |-> FALSE, retryCancelled |-> FALSE]
       IN  /\ cache' = [cache EXCEPT ![key] = entry]
           /\ Notify(key, entry)
    /\ outstanding' = [outstanding EXCEPT ![key] = @ - 1]
    /\ calls' = [calls EXCEPT ![key] = 0]
    /\ UNCHANGED <<observers, fetches, clock, apiVars, uiVars>>

\* the producer of the key rejects: the engine asks retry(failureCount,
\* error), with the failures counted before this one, and either counts the
\* failure and invokes the producer again or, also when no consumer of the
\* key is left, exposes the error
ProducerFails(key, error) ==
    /\ outstanding[key] > 0
    /\ IF retry(HookOf(key), cache[key].failureCount, error) /\ ~cache[key].retryCancelled
       THEN /\ cache' = [cache EXCEPT ![key].failureCount = @ + 1,
                                      ![key].failureReason = error]
            /\ calls' = [calls EXCEPT ![key] = @ + 1]
            /\ UNCHANGED <<outstanding, seen>>
       ELSE /\ LET entry == [cache[key] EXCEPT !.status = "error", !.hasError = TRUE,
                                                !.error = error, !.fetching = FALSE,
                                                !.failureCount = @ + 1,
                                                !.failureReason = error,
                                                !.retryCancelled = FALSE]
               IN  /\ cache' = [cache EXCEPT ![key] = entry]
                   /\ Notify(key, entry)
            /\ outstanding' = [outstanding EXCEPT ![key] = @ - 1]
            /\ UNCHANGED calls
    /\ UNCHANGED <<observers, fetches, clock, apiVars, uiVars>>

\* the queries useSearchUsersMutation is called with
MutationQueries == {<<" ">>, <<"a">>}

\* mutationFn: ({query}) => githubApi.searchUsers(query, 5), which returns []
\* for a blank query without a request
mutationFn(query) ==
    IF Trim(query) = <<>> THEN {Ok(<<>>)}
    ELSE Outcomes(queryKey("useSearchUsers", query))

\* queryClient.setQueryData(key, data): the entry holds the data as of now;
\* a fetch of the key that is outstanding goes on.  seeded records that
\* the data of the entry was put there by setQueryData
setQueryData(key, data) ==
    LET entry == [cache[key] EXCEPT !.status = "success", !.hasData = TRUE,
                                    !.data = data, !.hasError = FALSE,
                                    !.error = OtherError("none"),
                                    !.dataUpdatedAt = clock, !.seeded = TRUE]
    IN  /\ cache' = [cache EXCEPT ![key] = entry]
        /\ Notify(key, entry)

\* useSearchUsersMutation: the mutation of the query succeeds with data, and
\* onSuccess seeds the cache (onError only logs)
MutationSucceeds(query, data) ==
    /\ setQueryData(<<"users", "search", query>>, data)
    /\ UNCHANGED <<observers, outstanding, calls, fetches, clock, apiVars, uiVars>>

\* five minutes pass (time matters once some entry holds data)
Tick ==
    /\ clock + 5 <= MaxClock
    /\ \E key \in Keys : cache[key].hasData
    /\ clock' = clock + 5
    /\ UNCHANGED <<observers, cache, outstanding, calls, seen, fetches, apiVars, uiVars>>

QueryInit == Idle([y |-> 2025, m |-> 6, d |-> 15]) /\ QueryOff /\ UiOff

QueryNext ==
    \/ \E c \in Callers, hook \in Hooks :
          \E use \in HookUses(hook) : Mount(c, hook, use[1], use[2])
    \/ \E c \in Callers : Unmount(c)
    \/ \E key \in Keys : \E o \in Outcomes(key) :
          o.kind = "ok" /\ ProducerSucceeds(key, o.value)
    \/ \E key \in Keys : \E o \in Outcomes(key) :
          o.kind = "err" /\ ProducerFails(key, o.error)
    \/ Tick

QuerySpec == QueryInit /\ [][QueryNext]_vars

\* the search with useSearchUsersMutation beside it, while no user is
\* selected: one consumer, which renders useSearchUsers or one of the other
\* hooks as GitHubExplorer does with selectedUser null
SeedNext ==
    \/ \E hook \in Hooks : \E use \in HookUses(hook) :
          /\ hook = "useSearchUsers" \/ ~use[2]
          /\ Mount("c1", hook, use[1], use[2])
    \/ Unmount("c1")
    \/ \E key \in Keys : \E o \in Outcomes(key) :
          o.kind = "ok" /\ ProducerSucceeds(key, o.value)
    \/ \E key \in Keys : \E o \in Outcomes(key) :
          o.kind = "err" /\ ProducerFails(key, o.error)
    \/ \E query \in MutationQueries : \E o \in mutationFn(query) :
          o.kind = "ok" /\ MutationSucceeds(query, o.value)
    \/ Tick

SeedSpec == QueryInit /\ [][SeedNext]_vars

----------------------------------------------------------------------------
(* SearchForm: the input, its validation and the onSearch prop.  The input  *)
(* is disabled while isLoading, so the handlers run while it is not        *)

MaxUsernameLength == 39

MaxSubmits == 2

\* what can be typed: a name of a length around the limit, with or without
\* a blank before and after it
FormInputs ==
    {pre \o Repeat("a", n) \o suf :
        pre \in {<<>>, <<" ">>}, suf \in {<<>>, <<" ">>},
        n \in {0, 1, MaxUsernameLength - 1, MaxUsernameLength, MaxUsernameLength + 1}}

\* a bug: the length of the name is not validated
validateUsernameNoLength(value) ==
    IF Trim(value) = <<>> THEN Some("Username is required") ELSE None

validateUsername(value) ==
    IF Trim(value) = <<>> THEN Some("Username is required")
    ELSE IF Len(value) > MaxUsernameLength
    THEN Some("Username must be less than 40 characters")
    ELSE None

handleSubmit ==
    LET trimmedUsername == Trim(formUsername)
        validationError == validateUsername(trimmedUsername)
    IN  /\ formEvent' = "submit"
        /\ IF validationError # None
           THEN /\ formError' = validationError
                /\ touched' = TRUE
                /\ UNCHANGED onSearchCalls
           ELSE /\ Len(onSearchCalls) < MaxSubmits
                /\ formError' = None
                /\ onSearchCalls' = Append(onSearchCalls, trimmedUsername)
                /\ UNCHANGED touched
        /\ UNCHANGED <<formUsername, searchQuery, selectedUser, pageRequests,
                       apiVars, qVars>>

handleInputChange(value) ==
    /\ formEvent' = "change"
    /\ formUsername' = value
    /\ formError' = IF touched THEN validateUsername(value) ELSE None
    /\ UNCHANGED <<touched, onSearchCalls, searchQuery, selectedUser, pageRequests,
                   apiVars, qVars>>

handleBlur ==
    /\ formEvent' = "blur"
    /\ touched' = TRUE
    /\ formError' = validateUsername(formUsername)
    /\ UNCHANGED <<formUsername, onSearchCalls, searchQuery, selectedUser,
                   pageRequests, apiVars, qVars>>

FormNext ==
    \/ \E value \in FormInputs : handleInputChange(value)
    \/ handleBlur
    \/ handleSubmit

FormSpec == QueryInit /\ [][FormNext]_vars

----------------------------------------------------------------------------
(* GitHubExplorer: searchQuery, selectedUser and the three hooks it calls  *)

MaxAppFetches == 3

\* what SearchForm hands to onSearch
AppQueries == HookArgs("useSearchUsers") \ {<<>>}

\* the hooks as GitHubExplorer calls them in a render
AppObservers(query, selected) ==
    LET login == IF selected = None THEN <<>> ELSE selected[1].login
    IN  [c \in Consumers |->
            CASE c = "c1" -> [mounted |-> TRUE, hook |-> "useSearchUsers",
                              arg |-> query, flag |-> TRUE]
              [] c = "c2" -> [mounted |-> TRUE, hook |-> "useUser",
                              arg |-> login, flag |-> selected # None]
              [] OTHER    -> [mounted |-> TRUE, hook |-> "useUserRepositories",
                              arg |-> login, flag |-> selected # None]]

\* a render with new state: an observer whose key has changed leaves the
\* old query and subscribes to the new one
Rendered(E, query, selected) ==
    LET want == AppObservers(query, selected)
        Set(F, c) == IF F.observers[c] = want[c] THEN F
                     ELSE Subscribed(Unsubscribed(F, c), c,
                                     want[c].hook, want[c].arg, want[c].flag)
    IN  Set(Set(Set(E, "c1"), "c2"), "c3")

Render(query, selected) ==
    LET E == Rendered(Engine, query, selected)
    IN  /\ E.fetches <= MaxAppFetches
        /\ Install(E)

\* the props of UserList
isSearchingUsers == seen["c1"].isLoading
searchError ==
    IF seen["c1"].hasError /\ seen["c1"].error.message # <<>>
    THEN Some(seen["c1"].error.message) ELSE None
users == IF seen["c1"].hasData THEN seen["c1"].data ELSE <<>>

\* onSearch of the SearchForm, which is rendered while no user is selected
\* and is disabled while the search is loading
handleSearch(query) ==
    /\ selectedUser = None
    /\ ~isSearchingUsers
    /\ searchQuery' = query
    /\ selectedUser' = None
    /\ Render(query, None)
    /\ UNCHANGED <<clock, formUsername, formError, touched, onSearchCalls,
                   formEvent, pageRequests, apiVars>>

\* onUserSelect of the UserList, which shows the users found while no user
\* is selected, unless the search is loading or has an error to show
handleUserSelect(user) ==
    /\ selectedUser = None
    /\ ~isSearchingUsers
    /\ searchError = None
    /\ \E i \in 1..Len(users) : users[i] = user
    /\ selectedUser' = Some(user)
    /\ Render(searchQuery, Some(user))
    /\ UNCHANGED <<clock, searchQuery, formUsername, formError, touched,
                   onSearchCalls, formEvent, pageRequests, apiVars>>

\* onBackToUsers of the RepositoryList, which is rendered while a user is
\* selected
handleBackToUsers ==
    /\ selectedUser # None
    /\ selectedUser' = None
    /\ Render(searchQuery, None)
    /\ UNCHANGED <<clock, searchQuery, formUsername, formError, touched,
                   onSearchCalls, formEvent, pageRequests, apiVars>>

\* getUserRepositories, called by the fetch of the key, was given a full
\* page and requests the next one (the pages before the last are counted,
\* not kept)
NextPage(key) ==
    /\ key[1] = "repositories"
    /\ outstanding[key] > 0
    /\ pageRequests < MaxPages
    /\ pageRequests' = pageRequests + 1
    /\ UNCHANGED <<formUsername, formError, touched, onSearchCalls, formEvent,
                   searchQuery, selectedUser, apiVars, qVars>>

\* GitHubExplorer after its first render: no hook is enabled
AppInit ==
    /\ Idle([y |-> 2025, m |-> 6, d |-> 15])
    /\ UiOff
    /\ observers = AppObservers(<<>>, None)
    /\ cache = [k \in Keys |-> NoEntry]
    /\ outstanding = [k \in Keys |-> 0]
    /\ calls = [k \in Keys |-> 0]
    /\ seen = [c \in Consumers |-> ResultOf(NoEntry)]
    /\ fetches = 0
    /\ clock = 0

AppNext ==
    \/ \E query \in AppQueries : handleSearch(query)
    \/ \E user \in Accounts : handleUserSelect(user)
    \/ handleBackToUsers
    \/ \E key \in Keys : NextPage(key)
    \/ \E key \in Keys : \E o \in Outcomes(key) :
          o.kind = "ok" /\ ProducerSucceeds(key, o.value)
    \/ \E key \in Keys : \E o \in Outcomes(key) :
          o.kind = "err" /\ ProducerFails(key, o.error)
    \/ Tick

AppSpec == AppInit /\ [][AppNext]_vars

----------------------------------------------------------------------------
(* Claims about the API client, checked under Spec *)

WhitespaceOnly(s) == \A i \in 1..Len(s) : s[i] \in {" ", "\t"}

FirstShort(sizes) ==
    CHOOSE i \in 1..Len(sizes) :
        sizes[i] < 100 /\ \A j \in 1..(i - 1) : sizes[j] = 100

RECURSIVE SumSizes(_)
SumSizes(sizes) == IF sizes = <<>> THEN 0 ELSE Head(sizes) + SumSizes(Tail(sizes))

C2_TypedError ==
    (/\ pc = "done"
     /\ op \in {"searchUsers", "getUser", "getUserRepositories", "getUserEvents"}
     /\ ~lastResponse.ok
     /\ lastResponse.body.kind = "object") =>
        /\ result.kind = "err"
        /\ result.error.name = "GitHubApiError"
        /\ result.error.status = <<lastResponse.status>>
        /\ result.error.message = lastResponse.body.message

C2_Witness ==
    /\ pc = "done"
    /\ op = "getUserEvents"
    /\ lastResponse.status = 403
    /\ lastResponse.body.kind = "object"
    /\ result.kind = "err"
    /\ result.error.status = <<403>>
    /\ result.error.message = <<"API rate limit exceeded">>

\* C8: searchUsers with an empty or whitespace-only query issues no request
\* and returns an empty sequence
C8_BlankQuery ==
    (op = "searchUsers" /\ WhitespaceOnly(args.query)) =>
        /\ pc = "done"
        /\ requests = <<>>
        /\ result = [kind |-> "ok", value |-> <<>>]

C8_Witness ==
    /\ op = "searchUsers"
    /\ args.query = <<" ", "\t">>
    /\ pc = "done"
    /\ requests = <<>>

\* C9: searchUsers with a query that is not blank issues exactly one request,
\* with per_page the given limit (5 when none is given), and on a success
\* response returns the items of the decoded body
C9_OneRequest ==
    (op = "searchUsers" /\ ~WhitespaceOnly(args.query)) =>
        /\ Len(requests) = 1
        /\ requests[1].path = "/search/users"
        /\ requests[1].per_page = (IF args.limit = <<>> THEN 5 ELSE args.limit[1])
        /\ (pc = "done" /\ lastResponse.ok /\ lastResponse.body.kind = "json") =>
              result = [kind |-> "ok", value |-> lastResponse.body.value.items]

C9_Witness ==
    /\ op = "searchUsers"
    /\ pc = "done"
    /\ args.limit = <<10>>
    /\ Len(requests) = 1
    /\ requests[1].per_page = 10
    /\ lastResponse.ok
    /\ result.kind = "ok"
    /\ Len(result.value) = 2

\* C10: the q parameter of the request of searchUsers is the encoding of the
\* query with its surrounding whitespace removed
C10_TrimmedQuery ==
    (op = "searchUsers" /\ requests # <<>>) =>
        requests[1].q = encodeURIComponent(Trim(args.query))

----------------------------------------------------------------------------
(* Claims about the aggregation, checked under AggSpec *)

\* the positions of the events inside the window of the aggregation
Window == {i \in 1..Len(events) : events[i].created_at.valid
                                   /\ events[i].created_at.day >= oneYearAgo(now)}

AllValid == \A i \in 1..Len(events) : events[i].created_at.valid

RECURSIVE CommitsUpTo(_, _)
CommitsUpTo(n, W) ==
    IF n = 0 THEN 0
    ELSE CommitsUpTo(n - 1, W)
         + (IF n \in W /\ events[n].type = "PushEvent"
            THEN IF events[n].payload.present /\ events[n].payload.hasCommits
                 THEN Len(events[n].payload.commits)
                 ELSE 1
            ELSE 0)

\* C6: over events with valid timestamps, totalCommits is the sum over the
\* pushes in the window of the length of the commit list, or 1 without one;
\* totalPullRequests and totalIssues count the pull-request and issue events
\* in the window; totalRepositories is the length of the repository list
C6_Counts ==
    (pc = "done" /\ AllValid) =>
        LET W == Window
        IN  /\ result.value.totalCommits = CommitsUpTo(Len(events), W)
            /\ result.value.totalPullRequests =
                  Cardinality({i \in W : events[i].type = "PullRequestEvent"})
            /\ result.value.totalIssues =
                  Cardinality({i \in W : events[i].type = "IssuesEvent"})
            /\ result.value.totalRepositories = Len(allRepositories)

C6_Witness ==
    /\ pc = "done"
    /\ AllValid
    /\ \E i \in Window : events[i].type = "PushEvent" /\ ~events[i].payload.hasCommits
    /\ \E i \in Window : events[i].type = "PushEvent" /\ Len(events[i].payload.commits) = 2
    /\ \E i \in 1..Len(events) : i \notin Window /\ events[i].type = "PushEvent"
    /\ result.value.totalCommits = 3
    /\ result.value.totalRepositories = 2

\* C7: recentActivity is the first min(10, n) of the n events in the window,
\* in the order of the input
C7_RecentActivity ==
    pc = "done" =>
        LET recent == result.value.recentActivity
            W == Window
        IN  /\ Len(recent) = Min(10, Cardinality(W))
            /\ Len(recent) <= 10
            /\ \A j \in 1..Len(recent) :
                  \E i \in W :
                      /\ Cardinality({k \in W : k < i}) = j - 1
                      /\ recent[j] = events[i]

C7_Witness ==
    /\ pc = "done"
    /\ Cardinality(Window) > 10
    /\ Len(result.value.recentActivity) = 10
    /\ 1 \notin Window
    /\ result.value.recentActivity[1] = events[2]
    /\ \E i \in Window : events[i].type = "WatchEvent"

----------------------------------------------------------------------------
(* Claims about the query registrations, checked under QuerySpec *)

RateLimited == [name |-> "GitHubApiError", message |-> <<"API rate limit exceeded">>,
                status |-> <<403>>]
NotFound == [name |-> "GitHubApiError", message |-> <<"Not Found">>, status |-> <<404>>]

\* the failure is one the registration of the key must not retry
Final(key, error) ==
    /\ error.name = "GitHubApiError"
    /\ \/ error.status = <<403>>
       \/ key[1] = "user" /\ error.status = <<404>>

\* setQueryData has put data in the place of the error of the last fetch
Replaced(key) ==
    cache[key].seeded /\ ~cache[key].hasError /\ ~cache[key].fetching

\* C3: the retry callback of every hook returns false for a 403, and that of
\* useUser for a 404, whatever the failure count; after such a failure the
\* fetch is over, no producer invocation follows it, and the consumers of the
\* key are given the error with the message of the service (until the cache
\* is seeded with data for the key)
C3_NoRetryOnQuota ==
    /\ \A hook \in Hooks, n \in 0..5 : ~retry(hook, n, RateLimited)
    /\ \A n \in 0..5 : ~retry("useUser", n, NotFound)
    /\ \A key \in Keys :
          (Final(key, cache[key].failureReason) /\ ~Replaced(key)) =>
              /\ ~cache[key].fetching
              /\ outstanding[key] = 0
              /\ cache[key].hasError
              /\ cache[key].error = cache[key].failureReason
              /\ calls[key] = cache[key].failureCount
              /\ \A c \in Consumers :
                    (observers[c].mounted /\ KeyOf(c) = key) =>
                        /\ seen[c].hasError
                        /\ seen[c].error.message = cache[key].failureReason.message
                        /\ seen[c].error.status = cache[key].failureReason.status

C3_Witness ==
    /\ cache[<<"users", "search", <<"a">>>>].error = RateLimited
    /\ calls[<<"users", "search", <<"a">>>>] = 1
    /\ cache[<<"user", <<"a">>>>].error = NotFound
    /\ calls[<<"user", <<"a">>>>] = 1
    /\ \E c \in Consumers :
          /\ observers[c].mounted
          /\ observers[c].hook = "useUser"
          /\ seen[c].hasError
          /\ seen[c].error.message = <<"Not Found">>

C5_OneFetchPerKey ==
    /\ \A key \in Keys :
          /\ outstanding[key] <= 1
          /\ cache[key].fetching <=> outstanding[key] = 1
          /\ cache[key].fetching => calls[key] = cache[key].failureCount + 1
    /\ \A c1, c2 \in Consumers :
          (/\ observers[c1].mounted
           /\ observers[c2].mounted
           /\ KeyOf(c1) = KeyOf(c2)) => seen[c1] = seen[c2]

C5_Witness ==
    /\ \A c \in Callers : observers[c].mounted /\ observers[c].hook = "useUserRepositories"
                                                 /\ observers[c].arg = <<"a">>
    /\ fetches = 1
    /\ \A c \in Callers : seen[c].hasData /\ seen[c].data = RepositoryPage(1, 1)

----------------------------------------------------------------------------
(* Error propagation in the API client *)

SingleFetchOperations == {"searchUsers", "getUser", "getUserRepositories", "getUserEvents"}

\* the connectivity message each operation documents
MessageOf(operation) ==
    CASE operation = "searchUsers" ->
            <<"Failed to search users. Please check your connection.">>
      [] operation = "getUser" ->
            <<"Failed to fetch user details. Please check your connection.">>
      [] operation = "getUserRepositories" ->
            <<"Failed to fetch repositories. Please check your connection.">>
      [] operation = "getUserEvents" ->
            <<"Failed to fetch user events. Please check your connection.">>

Untyped(response) ==
    response = GarbledResponse \/ (~response.ok /\ response.body.kind = "null")

\* C11: every failure of an API operation reaches the caller as a
\* GitHubApiError; no error of another type escapes
C11_AlwaysTyped ==
    (pc = "done" /\ result.kind = "err") => result.error.name = "GitHubApiError"

\* C12: a typed error of getUserEvents or getUserRepositories inside
\* getUserContributionStats reaches the caller with the same message and
\* status: the nested operation's connectivity message after a transport
\* failure, the message and status of the response after an HTTP failure
C12_NoRewrap ==
    (/\ pc = "done"
     /\ op = "getUserContributionStats"
     /\ requests # <<>>
     /\ result.kind = "err") =>
        /\ lastResponse = Rejected =>
              result.error = [name |-> "GitHubApiError", message |-> MessageOf(inner),
                              status |-> <<>>]
        /\ (~lastResponse.ok /\ lastResponse.body.kind = "object") =>
              /\ result.error.message = lastResponse.body.message
              /\ result.error.status = <<lastResponse.status>>
        /\ (inner = "getUserRepositories" /\ Untyped(lastResponse)) =>
              result.error = [name |-> "GitHubApiError",
                              message |-> MessageOf("getUserRepositories"),
                              status |-> <<>>]

C12_Witness ==
    /\ pc = "done"
    /\ op = "getUserContributionStats"
    /\ inner = "getUserEvents"
    /\ lastResponse = Rejected
    /\ result.kind = "err"
    /\ result.error.message =
          <<"Failed to fetch user events. Please check your connection.">>

\* C13: when fetch rejects, searchUsers, getUser, getUserRepositories and
\* getUserEvents fail with a GitHubApiError that has no status and the
\* operation's connectivity message, whatever fetch rejected with
C13_TransportFailure ==
    (/\ pc = "done"
     /\ op \in SingleFetchOperations
     /\ lastResponse = Rejected) =>
        result = [kind |-> "err",
                  error |-> [name |-> "GitHubApiError", message |-> MessageOf(op),
                             status |-> <<>>]]

C13_Witness ==
    /\ pc = "done"
    /\ op = "getUser"
    /\ lastResponse = Rejected
    /\ result.kind = "err"
    /\ result.error.status = <<>>
    /\ result.error.message =
          <<"Failed to fetch user details. Please check your connection.">>

\* C14: in getUserRepositories a failure on any page ends the operation: the
\* failed request is the last one, the operation fails with a GitHubApiError
\* and returns none of the repositories of the earlier pages
C14_PageFailureAborts ==
    (/\ pc = "done"
     /\ op = "getUserRepositories"
     /\ requests # <<>>
     /\ (lastResponse = Rejected \/ ~lastResponse.ok \/ lastResponse = GarbledResponse)) =>
        /\ result.kind = "err"
        /\ result.error.name = "GitHubApiError"
        /\ Len(requests) = Len(responses) + 1
        /\ requests[Len(requests)].page = Len(responses) + 1

C14_Witness ==
    /\ pc = "done"
    /\ op = "getUserRepositories"
    /\ responses = <<100, 100>>
    /\ Len(allRepositories) = 200
    /\ Len(requests) = 3
    /\ lastResponse.status = 500
    /\ result.kind = "err"

\* C15: with an empty username no operation issues a request:
\* getUserRepositories and getUserEvents return an empty sequence, getUser
\* and getUserContributionStats fail with the GitHubApiError "Username is
\* required", which has no status
C15_EmptyUsername ==
    (/\ op \in {"getUser", "getUserRepositories", "getUserEvents",
                "getUserContributionStats"}
     /\ args.username = <<>>) =>
        /\ pc = "done"
        /\ requests = <<>>
        /\ op \in {"getUserRepositories", "getUserEvents"} =>
              result = [kind |-> "ok", value |-> <<>>]
        /\ op \in {"getUser", "getUserContributionStats"} =>
              result = [kind |-> "err",
                        error |-> [name |-> "GitHubApiError",
                                   message |-> <<"Username is required">>,
                                   status |-> <<>>]]

C15_Witness ==
    /\ pc = "done"
    /\ op = "getUser"
    /\ args.username = <<>>
    /\ requests = <<>>
    /\ result.kind = "err"
    /\ result.error.message = <<"Username is required">>

\* C16: getUserContributionStats requests the events first and the
\* repositories after them: while the events call is outstanding or has
\* failed there is one request, and every later request is a repository page
C16_EventsThenRepositories ==
    (op = "getUserContributionStats" /\ requests # <<>>) =>
        /\ requests[1].path = "/users/{username}/events/public"
        /\ \A i \in 2..Len(requests) :
              /\ requests[i].path = "/users/{username}/repos"
              /\ requests[i].page = i - 1
        /\ inner = "getUserEvents" => Len(requests) = 1
        /\ inner = "getUserRepositories" => Len(requests) >= 2
        /\ (pc = "done" /\ result.kind = "ok") => Len(requests) >= 2

C16_Witness ==
    /\ pc = "done"
    /\ op = "getUserContributionStats"
    /\ result.kind = "ok"
    /\ Len(requests) = 3
    /\ Len(events) = 4
    /\ result.value.totalRepositories = 137

----------------------------------------------------------------------------
(* The window of the aggregation *)

\* the events created at most 365 days before the computation
Window365 == {i \in 1..Len(events) : events[i].created_at.valid
                                      /\ DayOf(now) - events[i].created_at.day <= 365}

\* C17: the window of the aggregation is exactly 365 days: an event is
\* counted if and only if it was created at or after the computation time
\* minus 365 days, on every computation date
C17_Window365 ==
    (pc = "done" /\ AllValid) =>
        LET W == Window365
        IN  /\ result.value.totalCommits = CommitsUpTo(Len(events), W)
            /\ result.value.totalPullRequests =
                  Cardinality({i \in W : events[i].type = "PullRequestEvent"})
            /\ result.value.totalIssues =
                  Cardinality({i \in W : events[i].type = "IssuesEvent"})
            /\ Len(result.value.recentActivity) = Min(10, Cardinality(W))

\* C18: an event whose created_at is missing or is no date makes the
\* aggregation fail; it is not dropped from the window
C18_RejectsInvalidDate ==
    (pc = "done" /\ ~AllValid) => result.kind = "err"

----------------------------------------------------------------------------
(* Disabled registrations and the seeding of the cache *)

\* the gate of the registration of consumer c is closed: a search with an
\* empty or whitespace-only query, another hook with no selected user or an
\* empty username
GateClosed(c) ==
    IF observers[c].hook = "useSearchUsers"
    THEN ~observers[c].flag \/ WhitespaceOnly(observers[c].arg)
    ELSE ~observers[c].flag \/ observers[c].arg = <<>>

StartsQuery(c, key) ==
    /\ ~observers[c].mounted
    /\ observers'[c].mounted
    /\ queryKey(observers'[c].hook, observers'[c].arg) = key

\* the consumer is given the value the cache was seeded with, and no
\* producer is invoked
RoundTrip(c, key) ==
    /\ seen'[c].hasData
    /\ seen'[c].data = cache[key].data
    /\ cache'[key].data = cache[key].data
    /\ fetches' = fetches
    /\ outstanding' = outstanding

\* C20 as stated: after setQueryData seeded a key with a value, a query of
\* the key is given that value and issues no request
C20_SeedRoundTripAlways ==
    [][\A c \in Consumers, key \in Keys :
          (StartsQuery(c, key) /\ cache[key].seeded) => RoundTrip(c, key)]_vars

\* C20, amended: a query of the key within the staleTime of the search, 5
\* minutes from the seeding, is given the seeded value and issues no request
C20_SeedRoundTrip ==
    [][\A c \in Consumers, key \in Keys :
          (/\ StartsQuery(c, key)
           /\ cache[key].seeded
           /\ clock - cache[key].dataUpdatedAt < 5) => RoundTrip(c, key)]_vars

C20_Witness ==
    /\ observers["c1"].mounted
    /\ observers["c1"].hook = "useSearchUsers"
    /\ observers["c1"].arg = <<"a">>
    /\ cache[<<"users", "search", <<"a">>>>].seeded
    /\ cache[<<"users", "search", <<"a">>>>].dataUpdatedAt = clock
    /\ seen["c1"].hasData
    /\ seen["c1"].data = <<[id |-> 1, login |-> <<"a">>]>>
    /\ fetches = 0

----------------------------------------------------------------------------
(* Default messages, the events page and the page loop *)

\* the text HTTP <status>: <statusText> of the statuses of the model
DefaultText(status) ==
    CASE status = 403 -> <<"HTTP ", "403", ": ", "Forbidden">>
      [] status = 404 -> <<"HTTP ", "404", ": ", "Not Found">>
      [] status = 500 -> <<"HTTP ", "500", ": ", "Internal Server Error">>

\* C24: a response that is not ok and whose body is absent or is no JSON
\* gives a GitHubApiError whose message is HTTP <status>: <statusText> and
\* whose status is the HTTP status
C24_DefaultMessage ==
    (/\ pc = "done"
     /\ ~lastResponse.ok
     /\ lastResponse.body.kind \in {"invalid", "empty"}) =>
        result = [kind |-> "err",
                  error |-> [name |-> "GitHubApiError",
                             message |-> DefaultText(lastResponse.status),
                             status |-> <<lastResponse.status>>]]

C24_Witness ==
    /\ pc = "done"
    /\ op = "getUser"
    /\ lastResponse.status = 404
    /\ lastResponse.body.kind = "empty"
    /\ result.kind = "err"
    /\ result.error.message = <<"HTTP ", "404", ": ", "Not Found">>
    /\ result.error.status = <<404>>

\* C25: getUserEvents with a username issues one request, with per_page=100
\* and no page, and returns the events of its response, 100 of them included
C25_OneEventsPage ==
    (op = "getUserEvents" /\ args.username # <<>>) =>
        /\ Len(requests) = 1
        /\ requests[1].path = "/users/{username}/events/public"
        /\ requests[1].per_page = 100
        /\ requests[1].page = 0
        /\ (pc = "done" /\ lastResponse.ok /\ lastResponse.body.kind = "json") =>
              result = [kind |-> "ok", value |-> lastResponse.body.value]

C25_Witness ==
    /\ pc = "done"
    /\ op = "getUserEvents"
    /\ result.kind = "ok"
    /\ Len(result.value) = 100
    /\ Len(requests) = 1

\* C26: the pages of getUserRepositories are requested one at a time, in the
\* order 1, 2, 3, ...: request i is the request of page i, every request but
\* the last was answered with a full page, and at most the last request is
\* unanswered
C26_SequentialPages ==
    (op = "getUserRepositories" /\ requests # <<>>) =>
        /\ \A i \in 1..Len(requests) :
              /\ requests[i].path = "/users/{username}/repos"
              /\ requests[i].page = i
              /\ requests[i].per_page = 100
        /\ Len(responses) \in {Len(requests) - 1, Len(requests)}
        /\ \A i \in 1..(Len(requests) - 1) : responses[i] = 100
        /\ pc = "await" => Len(responses) = Len(requests) - 1

C26_Witness ==
    /\ pc = "done"
    /\ op = "getUserRepositories"
    /\ responses = <<100, 100, 0>>
    /\ Len(requests) = 3
    /\ requests[3].page = 3
    /\ result.kind = "ok"
    /\ Len(result.value) = 200

\* C28: getUserRepositories is over exactly when a page of less than 100
\* items arrived or a request failed; as long as every page that arrived
\* holds 100 items, the request of the next page is outstanding, whatever
\* the page number
C28_Termination ==
    (op = "getUserRepositories" /\ requests # <<>>) =>
        /\ pc \in {"await", "done"}
        /\ pc = "await" <=>
              /\ \A i \in 1..Len(responses) : responses[i] >= 100
              /\ lastResponse.ok \/ lastResponse = NoResponse
              /\ lastResponse # GarbledResponse
        /\ pc = "await" => page = Len(responses) + 1 /\ Len(requests) = page
        /\ pc = "done" =>
              \/ result.kind = "err"
              \/ responses # <<>> /\ responses[Len(responses)] < 100

C28_Witness ==
    /\ pc = "await"
    /\ op = "getUserRepositories"
    /\ page = MaxPages
    /\ \A i \in 1..Len(responses) : responses[i] = 100
    /\ Len(responses) = MaxPages - 1
    /\ Len(requests) = MaxPages

----------------------------------------------------------------------------
(* What a query shows to its consumer *)

\* C21: the loading flag a consumer is given is true only if the key has no
\* data and a fetch of it is outstanding; the error it is given is the last
\* failure, a GitHubApiError, and a successful fetch clears it
C21_LoadingAndError ==
    \A c \in Consumers :
        observers[c].mounted =>
            /\ seen[c].isLoading =>
                  ~cache[KeyOf(c)].hasData /\ outstanding[KeyOf(c)] = 1
            /\ seen[c].hasError =>
                  /\ seen[c].error = cache[KeyOf(c)].failureReason
                  /\ seen[c].error.name = "GitHubApiError"
            /\ cache[KeyOf(c)].status = "success" => ~seen[c].hasError

\* the staleTime of the key, in minutes
StaleMinutes(key) == IF key[1] = "user" THEN 10 ELSE 5

C23_EmptyResult ==
    /\ Single("searchUsers",
              OkResponse([total_count |-> 0, incomplete_results |-> FALSE,
                          items |-> <<>>])) = [kind |-> "ok", value |-> <<>>]
    /\ \A key \in Keys :
          (/\ key[1] = "users"
           /\ cache[key].status = "success"
           /\ ~cache[key].fetching
           /\ cache[key].data = <<>>) =>
              /\ cache[key].hasData
              /\ ~cache[key].hasError
              /\ cache[key].failureCount = 0
              /\ cache[key].failureReason.name = "none"
              /\ \A c \in Consumers :
                    (observers[c].mounted /\ KeyOf(c) = key) =>
                        seen[c].hasData /\ seen[c].data = <<>> /\ ~seen[c].hasError

C23_Witness ==
    /\ observers["c1"].mounted
    /\ observers["c1"].hook = "useSearchUsers"
    /\ observers["c1"].arg = <<"a">>
    /\ cache[<<"users", "search", <<"a">>>>].status = "success"
    /\ seen["c1"].hasData
    /\ seen["c1"].data = <<>>
    /\ ~seen["c1"].hasError
    /\ ~seen["c1"].isLoading
    /\ fetches = 1

\* C27: when a consumer unsubscribes the fetch of its key stays outstanding;
\* the fetch ends by filling the entry of the key, and a consumer that is
\* not subscribed is given nothing
C27_NoCancellation ==
    [][/\ \A c \in Consumers :
             (observers[c].mounted /\ ~observers'[c].mounted) =>
                 /\ outstanding' = outstanding
                 /\ cache'[KeyOf(c)].fetching = cache[KeyOf(c)].fetching
       /\ \A c \in Consumers : ~observers'[c].mounted => seen'[c] = NothingSeen
       /\ \A key \in Keys :
             outstanding'[key] < outstanding[key] =>
                 /\ ~cache'[key].fetching
                 /\ cache'[key].status \in {"success", "error"}
                 /\ cache'[key].status = "success" =>
                       cache'[key].hasData /\ cache'[key].dataUpdatedAt = clock]_vars

C27_Witness ==
    /\ \A c \in Consumers : ~observers[c].mounted
    /\ \A c \in Consumers : seen[c] = NothingSeen
    /\ outstanding[<<"repositories", <<"a">>>>] = 1
    /\ cache[<<"repositories", <<"a">>>>].fetching
    /\ cache[<<"repositories", <<"a">>>>].retryCancelled

----------------------------------------------------------------------------
(* Claims about SearchForm, checked under FormSpec *)

\* C30: onSearch is invoked only by a submit, with the trimmed input, and
\* only when the trimmed input is non-empty and at most 39 characters long;
\* any other submit leaves onSearch alone and sets a validation error; so
\* no argument onSearch was ever given is empty, padded with blanks or
\* longer than 39 characters
C30_OnSearch ==
    /\ [](\A i \in 1..Len(onSearchCalls) :
             /\ onSearchCalls[i] # <<>>
             /\ Trim(onSearchCalls[i]) = onSearchCalls[i]
             /\ Len(onSearchCalls[i]) <= 39)
    /\ [][LET trimmed == Trim(formUsername)
              valid == trimmed # <<>> /\ Len(trimmed) <= 39
          IN  /\ onSearchCalls' # onSearchCalls =>
                    /\ formEvent' = "submit"
                    /\ valid
                    /\ onSearchCalls' = Append(onSearchCalls, trimmed)
              /\ (formEvent' = "submit" /\ ~valid) =>
                    /\ onSearchCalls' = onSearchCalls
                    /\ formError' # None]_vars

C30_Witness ==
    /\ formEvent = "submit"
    /\ Len(formUsername) = 41
    /\ onSearchCalls = <<Repeat("a", 1), Repeat("a", 39)>>
    /\ formError = None

----------------------------------------------------------------------------
(* Claims about GitHubExplorer, checked under AppSpec *)

AccountKeys == {key \in Keys : key[1] \in {"user", "repositories"}}

\* the queries of useUser and useUserRepositories, as rendered, are enabled
AccountQueriesEnabled ==
    \A c \in {"c2", "c3"} :
        enabled(observers[c].hook, observers[c].arg, observers[c].flag)

\* this step starts a fetch of the key, or invokes its producer again
\* after a failure
Fetched(key) ==
    \/ ~cache[key].fetching /\ cache'[key].fetching
    \/ outstanding[key] > 0 /\ calls'[key] > calls[key]

\* this step requests a further page of repositories
PageRequested == pageRequests' > pageRequests

SearchAndGates ==
    /\ [](AccountQueriesEnabled <=> selectedUser # None)
    /\ [][searchQuery' # searchQuery => selectedUser' = None]_vars

\* C29 as stated: a search clears the selected user, the account and
\* repository queries are enabled exactly while a user is selected, and no
\* account or repository request is issued while no user is selected
C29_NoRequestUnselected ==
    /\ SearchAndGates
    /\ [][((\E key \in AccountKeys : Fetched(key)) \/ PageRequested) =>
              selectedUser' # None]_vars

\* C29, amended: a search clears the selected user, the account and
\* repository queries are enabled exactly while a user is selected, and a
\* fetch of an account or repository key is started, or retried after a
\* failure, only while a user is selected, and for the login of that user;
\* further pages of a repositories fetch may be requested after that
C29_NoFetchUnselected ==
    /\ SearchAndGates
    /\ [][\A key \in AccountKeys :
              Fetched(key) =>
                  /\ selectedUser' # None
                  /\ key[2] = selectedUser'[1].login]_vars

\* the selection was cleared while the fetch of the repositories, two pages
\* on, is outstanding
C29_Witness ==
    /\ selectedUser = None
    /\ searchQuery = <<"a">>
    /\ \E key \in AccountKeys :
          /\ key[1] = "repositories"
          /\ outstanding[key] > 0
          /\ observers["c3"].arg # key[2]
    /\ pageRequests = 2

====
